---- MODULE Spec2Model ----
(***************************************************************************)
(* Model of the jira-metrics pipeline                                      *)
(*   build_issue_rows_dataframe -> compute_status_durations_column         *)
(*   -> compute_all_metrics                                                *)
(* (src/src/data_processing.py, src/metrics.py, driven by src/app.py).     *)
(*                                                                         *)
(* Encodings.  An optional number (Optional[pd.Timestamp], Optional[float],*)
(* NaT, NaN) is a record [def, v]: None is [def |-> FALSE, v |-> 0].  A    *)
(* missing string (Python None where a str is expected) is NoneStr.        *)
(* Instants are seconds; the inputs are whole days, so that the division   *)
(* by 86400.0 is exact in the integers.  A float that is a quotient (a     *)
(* mean, a percentage) is the fraction [num, den].  A dict / pd.Series is  *)
(* a function whose DOMAIN is its key set.  A DataFrame is [columns, rows].*)
(***************************************************************************)
EXTENDS Integers, Sequences, FiniteSets, TLC

VARIABLES
    issues,             \* the batch returned by fetch_issues_for_sprints
    in_progress_names,  \* sidebar configuration (app.py 42-46)
    done_names,         \* sidebar configuration (app.py 48-52)
    pc,                 \* position in the "Fetch / Refresh" handler of app.py
    df,                 \* the issue table handed from step to step
    metrics,            \* the MetricsResult, once computed
    runs,               \* invocations of compute_all_metrics so far
    summary,            \* the output of generate_summary_markdown
    cache,              \* _CACHE of ai_feedback.py: cache_key -> entry
    calls               \* the calls of generate_ai_feedback, one per session

vars == <<issues, in_progress_names, done_names, pc, df, metrics, runs,
          summary, cache, calls>>
pipeline == <<issues, in_progress_names, done_names, pc, df, metrics, runs>>
feedback == <<cache, calls>>

\* ---------------------------------------------------------------- bounds
MaxIssues == 2
MaxEntries == 3
MaxDay == 2
MaxRuns == 2
MaxCalls == 2

\* ------------------------------------------------------------- constants
SecondsPerDay == 86400

\* ------------------------------------------------------------- encodings
None == [def |-> FALSE, v |-> 0]
Some(x) == [def |-> TRUE, v |-> x]
NoneStr == "<None>"
EmptyDict == [k \in {} |-> 0]
DictGet(d, k, default) == IF k \in DOMAIN d THEN d[k] ELSE default
DictSet(d, k, x) == [y \in (DOMAIN d) \cup {k} |-> IF y = k THEN x ELSE d[y]]
Day(n) == n * SecondsPerDay

RECURSIVE SumOver(_, _)
SumOver(S, f) ==
    IF S = {} THEN 0
    ELSE LET x == CHOOSE y \in S : TRUE IN f[x] + SumOver(S \ {x}, f)

\* timedelta.total_seconds() / 86400.0
TotalDays(td) == td \div SecondsPerDay

\* ------------------------------------------------- data_processing.py

\* A raw timestamp is [kind, t]: kind "none" (attribute missing), "bad"
\* (pd.to_datetime raises) or "iso" (a string denoting the UTC instant t).
ParseDatetime(value) ==
    IF value.kind = "none" THEN None
    ELSE IF value.kind = "bad" THEN None
    ELSE Some(value.t)

\* The inner loop over hist.items: one tuple per item whose field is "status".
RECURSIVE StatusItems(_, _, _)
StatusItems(ht, items, j) ==
    IF j > Len(items) THEN <<>>
    ELSE (IF items[j].field = "status"
          THEN << <<ht, items[j].fromString, items[j].toString>> >>
          ELSE <<>>)
         \o StatusItems(ht, items, j + 1)

\* The outer loop over changelog.histories.  An entry whose timestamp does not
\* parse is skipped; an items attribute that cannot be iterated raises inside
\* the outer try, which ends the loop with what was collected so far.
RECURSIVE CollectHistory(_, _, _)
CollectHistory(histories, i, history) ==
    IF i > Len(histories) THEN history
    ELSE LET hist == histories[i]
             ht == ParseDatetime(hist.created)
         IN  IF ~ht.def THEN CollectHistory(histories, i + 1, history)
             ELSE IF ~hist.items.iterable THEN history
             ELSE CollectHistory(histories, i + 1,
                                 history \o StatusItems(ht.v, hist.items.list, 1))

\* Mutant: a sort that puts a transition before the ones of equal timestamp.
InsertBeforeEqual(sorted, x) ==
    LET n == Cardinality({k \in 1..Len(sorted) : sorted[k][1] < x[1]})
    IN  SubSeq(sorted, 1, n) \o <<x>> \o SubSeq(sorted, n + 1, Len(sorted))

\* list.sort(key=lambda t: t[0]): stable, ascending by timestamp.
InsertByTime(sorted, x) ==
    LET n == Cardinality({k \in 1..Len(sorted) : sorted[k][1] <= x[1]})
    IN  SubSeq(sorted, 1, n) \o <<x>> \o SubSeq(sorted, n + 1, Len(sorted))

RECURSIVE SortByTime(_, _, _)
SortByTime(history, i, sorted) ==
    IF i > Len(history) THEN sorted
    ELSE SortByTime(history, i + 1, InsertByTime(sorted, history[i]))

ExtractStatusHistory(issue) ==
    LET collected == IF issue.changelog.present
                     THEN CollectHistory(issue.changelog.histories, 1, <<>>)
                     ELSE <<>>
    IN  SortByTime(collected, 1, <<>>)

\* float(value) of the story-points custom field, None when it is missing.
ExtractStoryPoints(fields) == fields.story_points

\* sorted(sprint_ids)[-1]: the largest id of the Sprint custom field, None
\* when the field is missing or holds no id.
ExtractSprintId(fields) ==
    LET sprint_ids == {fields.sprints[k] : k \in 1..Len(fields.sprints)}
    IN  IF sprint_ids = {} THEN None
        ELSE Some(CHOOSE m \in sprint_ids : \A o \in sprint_ids : o <= m)

IssueRow(issue) ==
    [key           |-> issue.key,
     story_points  |-> ExtractStoryPoints(issue),
     created       |-> ParseDatetime(issue.created),
     resolved      |-> ParseDatetime(issue.resolutiondate),
     sprint_id     |-> ExtractSprintId(issue),
     status_history |-> ExtractStatusHistory(issue)]

RowColumns == {"key", "story_points", "created", "resolved", "sprint_id",
               "status_history"}

\* pd.DataFrame(rows): a table built from no rows has no columns at all.
BuildIssueRowsDataframe(batch) ==
    LET kept == SelectSeq(batch, LAMBDA issue : issue.has_fields)
    IN  [columns |-> IF kept = <<>> THEN {} ELSE RowColumns,
         rows    |-> [i \in 1..Len(kept) |-> IssueRow(kept[i])]]

\* Mutant: a later interval in a status replaces the earlier ones.
TimeInStatusLast(history) ==
    LET keys == {history[k][3] : k \in 1..(Len(history) - 1)} \ {NoneStr}
    IN  [s \in keys |->
            LET last == CHOOSE k \in 1..(Len(history) - 1) :
                            /\ history[k][3] = s
                            /\ \A o \in 1..(Len(history) - 1) :
                                   history[o][3] = s => o <= k
            IN  history[last + 1][1] - history[last][1]]

\* Mutant: the interval is accrued to the status of the later transition.
RECURSIVE TimeInStatusLoopByNext(_, _, _)
TimeInStatusLoopByNext(history, idx, durations) ==
    IF idx > Len(history) - 1 THEN durations
    ELSE LET start_time == history[idx][1]
             to_status == history[idx + 1][3]
             end_time == history[idx + 1][1]
             delta == end_time - start_time
         IN  IF to_status = NoneStr
             THEN TimeInStatusLoopByNext(history, idx + 1, durations)
             ELSE TimeInStatusLoopByNext(history, idx + 1,
                      DictSet(durations, to_status,
                              DictGet(durations, to_status, 0) + delta))

RECURSIVE TimeInStatusLoop(_, _, _)
TimeInStatusLoop(history, idx, durations) ==
    IF idx > Len(history) - 1 THEN durations
    ELSE LET start_time == history[idx][1]
             to_status == history[idx][3]
             end_time == history[idx + 1][1]
             delta == end_time - start_time
         IN  IF to_status = NoneStr
             THEN TimeInStatusLoop(history, idx + 1, durations)
             ELSE TimeInStatusLoop(history, idx + 1,
                      DictSet(durations, to_status,
                              DictGet(durations, to_status, 0) + delta))

TimeInStatus(history) ==
    IF Len(history) < 2 THEN EmptyDict
    ELSE TimeInStatusLoop(history, 1, EmptyDict)

\* "blocked" in status_name.lower(), over the status names of the model.
BlockedNames == {"Blocked", "BLOCKED (external)"}
ContainsBlocked(status_name) == status_name \in BlockedNames

\* total.total_seconds() / 86400.0 if total else None: a zero timedelta is falsy.
BlockedDays(dur) ==
    LET total == SumOver({s \in DOMAIN dur : ContainsBlocked(s)}, dur)
    IN  IF total # 0 THEN Some(TotalDays(total)) ELSE None

DurationsRow(row) ==
    LET dur == TimeInStatus(row.status_history)
    IN  row @@ [status_durations |-> dur, blocked_days |-> BlockedDays(dur)]

ComputeStatusDurationsColumn(table) ==
    [columns |-> table.columns \cup {"status_durations", "blocked_days"},
     rows    |-> [i \in 1..Len(table.rows) |-> DurationsRow(table.rows[i])]]

\* --------------------------------------------------------- metrics.py

RECURSIVE FirstTimeToStatus(_, _, _)
FirstTimeToStatus(history, targets, i) ==
    IF i > Len(history) THEN None
    ELSE IF history[i][3] \in targets THEN Some(history[i][1])
    ELSE FirstTimeToStatus(history, targets, i + 1)

\* for ... in reversed(history): i runs from Len(history) down to 1.
RECURSIVE LastTimeToStatus(_, _, _)
LastTimeToStatus(history, targets, i) ==
    IF i < 1 THEN None
    ELSE IF history[i][3] \in targets THEN Some(history[i][1])
    ELSE LastTimeToStatus(history, targets, i - 1)

RECURSIVE WasReopenedLoop(_, _, _, _)
WasReopenedLoop(history, names, i, seen_done) ==
    IF i > Len(history) THEN FALSE
    ELSE IF history[i][3] \in names
         THEN WasReopenedLoop(history, names, i + 1, TRUE)
    ELSE IF seen_done /\ history[i][3] \notin names THEN TRUE
    ELSE WasReopenedLoop(history, names, i + 1, seen_done)

\* Mutant: reopened means "was done once and is not done now".
WasReopenedFinalState(history, names) ==
    /\ \E i \in 1..Len(history) : history[i][3] \in names
    /\ history[Len(history)][3] \notin names

WasReopened(history, names) == WasReopenedLoop(history, names, 1, FALSE)

\* Timestamp - Timestamp, NaT when either side is missing.
OptSub(a, b) == IF a.def /\ b.def THEN Some(a.v - b.v) ELSE None
\* .dt.total_seconds() / 86400.0, NaN for NaT.
OptDays(td) == IF td.def THEN Some(TotalDays(td.v)) ELSE None

\* Mutant: without a resolution date an issue is done only while its latest
\* transition is into a done status.
DoneTimeCurrentStatus(row, names) ==
    LET h == row.status_history
    IN  IF row.resolved.def THEN row.resolved
        ELSE IF h # <<>> /\ h[Len(h)][3] \in names THEN Some(h[Len(h)][1])
        ELSE None

\* Mutant: the fall-back is the last transition, whatever its status.
DoneTimeLastTransition(row, names) ==
    IF row.resolved.def THEN row.resolved
    ELSE IF row.status_history = <<>> THEN None
    ELSE Some(row.status_history[Len(row.status_history)][1])

\* Mutant: the history is preferred to the resolution date.
DoneTimeHistoryFirst(row, names) ==
    LET last == LastTimeToStatus(row.status_history, names, Len(row.status_history))
    IN  IF last.def THEN last ELSE row.resolved

\* resolved_times.where(resolved_times.notna(), last_done_times)
DoneTime(row, names) ==
    IF row.resolved.def THEN row.resolved
    ELSE LastTimeToStatus(row.status_history, names, Len(row.status_history))

MetricsRow(row, ip_names, d_names) ==
    LET in_progress_time == FirstTimeToStatus(row.status_history, ip_names, 1)
        done_time == DoneTime(row, d_names)
    IN  row @@ [in_progress_time |-> in_progress_time,
                done_time        |-> done_time,
                cycle_time_days  |-> OptDays(OptSub(done_time, in_progress_time)),
                lead_time_days   |-> OptDays(OptSub(row.resolved, row.created))]

\* The mean of a column after dropna(), None when nothing is left.
ColumnMean(rows, col) ==
    LET idx == {i \in 1..Len(rows) : rows[i][col].def}
        val == [i \in idx |-> rows[i][col].v]
    IN  IF idx # {} THEN Some([num |-> SumOver(idx, val), den |-> Cardinality(idx)])
        ELSE None

\* Mutant: the population standard deviation (ddof=0), 0.0 for a single value.
ColumnStdPopulation(rows, col) ==
    LET idx == {i \in 1..Len(rows) : rows[i][col].def}
        val == [i \in idx |-> rows[i][col].v]
        sq == [i \in idx |-> rows[i][col].v * rows[i][col].v]
        n == Cardinality(idx)
    IN  IF n > 0
        THEN Some([num |-> n * SumOver(idx, sq) - SumOver(idx, val) * SumOver(idx, val),
                   den |-> n * n])
        ELSE None

\* Series.std(ddof=1) of a column after dropna(), None for fewer than two
\* values.  The value kept is the sample variance (the square of the std):
\* (n * sum(x^2) - sum(x)^2) / (n * (n - 1)).
ColumnStd(rows, col) ==
    LET idx == {i \in 1..Len(rows) : rows[i][col].def}
        val == [i \in idx |-> rows[i][col].v]
        sq == [i \in idx |-> rows[i][col].v * rows[i][col].v]
        n == Cardinality(idx)
    IN  IF n > 1
        THEN Some([num |-> n * SumOver(idx, sq) - SumOver(idx, val) * SumOver(idx, val),
                   den |-> n * (n - 1)])
        ELSE None

\* groupby("sprint_id").size() over the completed rows that carry a sprint.
Throughput(rows, with_sprint) ==
    [s \in {rows[i].sprint_id.v : i \in with_sprint} |->
        Cardinality({i \in with_sprint : rows[i].sprint_id.v = s})]

\* Mutant: a sprint without any estimate is dropped instead of filled with 0.0.
VelocityDropMissing(rows, with_sprint) ==
    [s \in {rows[i].sprint_id.v :
                i \in {j \in with_sprint : rows[j].story_points.def}} |->
        LET est == {i \in with_sprint :
                        rows[i].sprint_id.v = s /\ rows[i].story_points.def}
            pts == [i \in est |-> rows[i].story_points.v]
        IN  SumOver(est, pts)]

\* groupby("sprint_id")["story_points"].sum(min_count=1).fillna(0.0)
Velocity(rows, with_sprint) ==
    [s \in {rows[i].sprint_id.v : i \in with_sprint} |->
        LET est == {i \in with_sprint :
                        rows[i].sprint_id.v = s /\ rows[i].story_points.def}
            pts == [i \in est |-> rows[i].story_points.v]
            total == IF Cardinality(est) >= 1 THEN Some(SumOver(est, pts)) ELSE None
        IN  IF total.def THEN total.v ELSE 0]

\* Mutant: the division is made without the guard on completed_total.
ReopenRatePctUnguarded(reopened_total, completed_total) ==
    [num |-> reopened_total * 100, den |-> completed_total]

ReopenRatePct(reopened_total, completed_total) ==
    IF completed_total > 0
    THEN [num |-> reopened_total * 100, den |-> completed_total]
    ELSE [num |-> 0, den |-> 1]

ComputeAllMetricsResult(table, ip_names, d_names) ==
    LET rows == [i \in 1..Len(table.rows) |->
                    MetricsRow(table.rows[i], ip_names, d_names)]
        reopened_flags == [i \in 1..Len(rows) |->
                              WasReopened(rows[i].status_history, d_names)]
        completed_mask == {i \in 1..Len(rows) : rows[i].done_time.def}
        completed_total == Cardinality(completed_mask)
        reopened_total ==
            Cardinality({i \in completed_mask : reopened_flags[i]})
        completed_with_sprint == {i \in completed_mask : rows[i].sprint_id.def}
    IN  [df |-> [columns |-> table.columns \cup
                             {"in_progress_time", "done_time",
                              "cycle_time_days", "lead_time_days"},
                 rows |-> rows],
         reopened_flags       |-> reopened_flags,
         throughput           |-> Throughput(rows, completed_with_sprint),
         velocity             |-> Velocity(rows, completed_with_sprint),
         reopen_rate_pct      |-> ReopenRatePct(reopened_total, completed_total),
         avg_cycle_time_days  |-> ColumnMean(rows, "cycle_time_days"),
         avg_lead_time_days   |-> ColumnMean(rows, "lead_time_days"),
         cycle_time_std_days  |-> ColumnStd(rows, "cycle_time_days"),
         blocked_avg_days     |-> ColumnMean(rows, "blocked_days")]

\* ---------------------------------------------------------- report.py

\* Truthiness of an Optional[float]: None and 0.0 are falsy.
Truthy(q) == q.def /\ q.v.num # 0
\* a - b > n, a > n / d and sqrt(a) > n for fractions with positive denominators.
DiffGreater(a, b, n) == a.num * b.den - b.num * a.den > n * a.den * b.den
Greater(a, n, d) == a.num * d > n * a.den
RootGreater(a, n) == a.num > n * n * a.den

BacklogGapDays == 2
ReopenThresholdPct == 10
StdThresholdDays == 3
MaxRecommendations == 3

\* The four tests of generate_summary_markdown, in the order of the code: the
\* texts appended to recs, named after their rule.
Recommendations(m) ==
    (IF /\ Truthy(m.avg_cycle_time_days)
        /\ Truthy(m.avg_lead_time_days)
        /\ DiffGreater(m.avg_lead_time_days.v, m.avg_cycle_time_days.v,
                       BacklogGapDays)
     THEN <<"backlog">> ELSE <<>>)
    \o (IF Truthy(m.blocked_avg_days) /\ Greater(m.blocked_avg_days.v, 1, 2)
        THEN <<"blockers">> ELSE <<>>)
    \o (IF Greater(m.reopen_rate_pct, ReopenThresholdPct, 1)
        THEN <<"reopen">> ELSE <<>>)
    \o (IF /\ Truthy(m.cycle_time_std_days)
           /\ RootGreater(m.cycle_time_std_days.v, StdThresholdDays)
        THEN <<"variance">> ELSE <<>>)

\* Mutant: the last three recommendations are kept.
ShownLast(recs) ==
    SubSeq(recs, IF Len(recs) > MaxRecommendations
                 THEN Len(recs) - MaxRecommendations + 1 ELSE 1, Len(recs))

\* recs[:3]
Shown(recs) ==
    SubSeq(recs, 1, IF Len(recs) > MaxRecommendations
                    THEN MaxRecommendations ELSE Len(recs))

\* The lines of the summary, each named after what it reports; recs is the
\* local list of the function, kept beside them.
GenerateSummaryMarkdown(m) ==
    LET recs == Recommendations(m)
    IN  [recs  |-> recs,
         lines |-> <<"Summary of Metrics", "Averages">>
                   \o (IF m.blocked_avg_days.def THEN <<"Avg blocked time">> ELSE <<>>)
                   \o <<"Reopen rate">>
                   \o (IF DOMAIN m.throughput # {} THEN <<"Throughput">> ELSE <<>>)
                   \o (IF DOMAIN m.velocity # {} THEN <<"Velocity">> ELSE <<>>)
                   \o (IF recs # <<>> THEN <<"Recommendations">> \o Shown(recs)
                       ELSE <<>>)]

NoSummary == [recs |-> <<>>, lines |-> <<>>]

\* ----------------------------------------------------- ai_feedback.py

\* A cache entry is [def, v]: no entry, or the text stored under the key.
NoEntry == [def |-> FALSE, v |-> ""]
Entry(text) == [def |-> TRUE, v |-> text]
\* cache_key is a digest of the model name, the metrics signature, the RAG
\* context and the prompt: a request is named by its key.
CacheKeys == {"ai_feedback:1", "ai_feedback:2"}
\* completion.choices[0].message.content or ""
Texts == {"", "analysis A", "analysis B"}
Sessions == {1, 2}
EmptyCache == [k \in CacheKeys |-> NoEntry]
Idle(n) == [pc |-> "idle", key |-> "", text |-> "", n |-> n]
NoCalls == [p \in Sessions |-> Idle(0)]

\* ------------------------------------------------------------ the handler

NoTable == [columns |-> {}, rows |-> <<>>]
NoMetrics == [df |-> NoTable]

\* app.py 80: _df = build_issue_rows_dataframe(_issues)
BuildIssueRows ==
    /\ pc = "fetched"
    /\ df' = BuildIssueRowsDataframe(issues)
    /\ pc' = "rows"
    /\ UNCHANGED <<issues, in_progress_names, done_names, metrics>>
    /\ UNCHANGED <<runs, summary, feedback>>

\* app.py 81: _df = compute_status_durations_column(_df).  df["status_history"]
\* raises KeyError on a table without that column, and the handler ends there.
ComputeStatusDurations ==
    /\ pc = "rows"
    /\ IF "status_history" \in df.columns
       THEN /\ df' = ComputeStatusDurationsColumn(df)
            /\ pc' = "durations"
       ELSE /\ df' = df
            /\ pc' = "error"
    /\ UNCHANGED <<issues, in_progress_names, done_names, metrics>>
    /\ UNCHANGED <<runs, summary, feedback>>

\* Mutant: the derived columns are written to the caller's table (no df.copy()).
ComputeAllMetricsInPlace ==
    /\ pc = "durations"
    /\ metrics' = ComputeAllMetricsResult(df, in_progress_names, done_names)
    /\ df' = metrics'.df
    /\ pc' = "metrics"
    /\ runs' = runs + 1
    /\ UNCHANGED <<issues, in_progress_names, done_names>>
    /\ UNCHANGED <<summary, feedback>>

\* app.py 87: metrics = compute_all_metrics(df, in_progress_names=..., done_names=...)
ComputeAllMetrics ==
    /\ pc = "durations"
    /\ metrics' = ComputeAllMetricsResult(df, in_progress_names, done_names)
    /\ pc' = "metrics"
    /\ runs' = runs + 1
    /\ UNCHANGED <<issues, in_progress_names, done_names, df>>
    /\ UNCHANGED <<summary, feedback>>

Next == BuildIssueRows \/ ComputeStatusDurations \/ ComputeAllMetrics

\* ------------------------------------------------------------- the inputs

Iso(d) == [kind |-> "iso", t |-> Day(d)]
NoTs == [kind |-> "none", t |-> 0]
BadTs == [kind |-> "bad", t |-> 0]

StatusItem(from, to) == [field |-> "status", fromString |-> from, toString |-> to]
OtherItem == [field |-> "assignee", fromString |-> "ann", toString |-> "bob"]
Items(list) == [iterable |-> TRUE, list |-> list]
NotIterable == [iterable |-> FALSE, list |-> <<>>]
Changelog(histories) == [present |-> TRUE, histories |-> histories]
NoChangelog == [present |-> FALSE, histories |-> <<>>]

SeqsUpTo(S, n) == UNION {[1..k -> S] : k \in 0..n}
Keyed(batch) == [i \in 1..Len(batch) |-> [batch[i] EXCEPT !.key = i]]

Start(batch, ip_names, d_names) ==
    /\ issues = Keyed(batch)
    /\ in_progress_names = ip_names
    /\ done_names = d_names
    /\ pc = "fetched"
    /\ df = NoTable
    /\ metrics = NoMetrics
    /\ runs = 0
    /\ summary = NoSummary
    /\ cache = EmptyCache
    /\ calls = NoCalls

\* Batches: up to MaxIssues issues, each with a well-formed change-log that
\* was delivered in order, one entry a day.  The batch is an order-insignificant
\* collection whose rows are only counted and summed, so one order of each
\* collection is drawn: the issues come sorted by ShapeRank.
BatchChangelog(tos) ==
    Changelog([k \in 1..Len(tos) |->
                  [created |-> Iso(k - 1),
                   items |-> Items(<<StatusItem(NoneStr, tos[k])>>)]])

BatchChangelogs ==
    <<BatchChangelog(<<>>),
      BatchChangelog(<<"In Progress", "Done">>),
      BatchChangelog(<<"Done", "In Progress">>),
      BatchChangelog(<<"Blocked", "Done">>),
      BatchChangelog(<<"Done", "In Progress", "Done">>)>>
BatchResolutionDates == <<NoTs, Iso(0), Iso(2)>>
\* Story points and Sprint field: no sprint, a sprint without an estimate, a
\* sprint with an estimate, and an issue moved from sprint 2 back to sprint 1.
BatchEstimates ==
    <<[story_points |-> None, sprints |-> <<>>],
      [story_points |-> None, sprints |-> <<1>>],
      [story_points |-> Some(3), sprints |-> <<1>>],
      [story_points |-> Some(3), sprints |-> <<2, 1>>]>>

\* A shape <<f, r, e, c>>: whether the issue has its fields attribute, and the
\* positions of its resolution date, estimate and change-log.
BatchShapes ==
    {sh \in {0, 1} \X (DOMAIN BatchResolutionDates) \X (DOMAIN BatchEstimates)
               \X (DOMAIN BatchChangelogs) :
        sh[1] = 0 => (sh[2] = 1 /\ sh[3] = 1 /\ sh[4] = 1)}

ShapeRank(sh) ==
    ((sh[1] * (Len(BatchResolutionDates) + 1) + sh[2])
        * (Len(BatchEstimates) + 1) + sh[3])
        * (Len(BatchChangelogs) + 1) + sh[4]

BatchIssue(sh) ==
    [key |-> 0, has_fields |-> sh[1] = 1, created |-> Iso(1),
     resolutiondate |-> BatchResolutionDates[sh[2]],
     story_points |-> BatchEstimates[sh[3]].story_points,
     sprints |-> BatchEstimates[sh[3]].sprints,
     changelog |-> BatchChangelogs[sh[4]]]

Batches ==
    {[i \in 1..Len(shs) |-> BatchIssue(shs[i])] :
        shs \in {q \in SeqsUpTo(BatchShapes, MaxIssues) :
                    \A i \in 1..(Len(q) - 1) : ShapeRank(q[i]) <= ShapeRank(q[i + 1])}}

Init ==
    \E batch \in Batches :
    \E d_names \in {{"Done"}, {"Resolved"}, {}} :
        Start(batch, {"In Progress"}, d_names)

Spec == Init /\ [][Next]_vars

\* Histories: one issue whose change-log has up to MaxEntries well-formed
\* entries, delivered in any order, each with one status item.
OneIssue(cl) ==
    [key |-> 0, has_fields |-> TRUE, created |-> Iso(0), resolutiondate |-> NoTs,
     story_points |-> None, sprints |-> <<>>, changelog |-> cl]

HistoryEntries ==
    {[created |-> Iso(d), items |-> Items(<<StatusItem("To Do", to)>>)] :
        d \in 0..MaxDay,
        to \in {NoneStr, "In Progress", "Blocked", "Done", "Closed"}}

InitHistory ==
    \E hs \in SeqsUpTo(HistoryEntries, MaxEntries) :
    \E d_names \in {{"Done"}, {"Done", "Closed"}, {}} :
        Start(<<OneIssue(Changelog(hs))>>, {"In Progress"}, d_names)

SpecHistory == InitHistory /\ [][Next]_vars

\* Change-logs: one issue whose change-log has up to MaxEntries entries, each
\* with a timestamp that may be missing or unparsable and an items field that
\* may be missing, empty or not iterable.
ChangelogEntries ==
    {[created |-> c, items |-> it] :
        c \in {NoTs, BadTs} \cup {Iso(d) : d \in 0..MaxDay},
        it \in {NotIterable, Items(<<>>), Items(<<OtherItem>>),
                Items(<<StatusItem("To Do", "In Progress")>>),
                Items(<<StatusItem("In Progress", "Done"), OtherItem,
                        StatusItem("Done", "In Progress")>>)}}

InitChangelog ==
    \E cl \in {NoChangelog} \cup
               {Changelog(hs) : hs \in SeqsUpTo(ChangelogEntries, MaxEntries)} :
        Start(<<OneIssue(cl)>>, {"In Progress"}, {"Done"})

SpecChangelog == InitChangelog /\ [][Next]_vars

\* ============================================================== properties

Computed == pc \in {"durations", "metrics"}
Rows == 1..Len(df.rows)
History(i) == df.rows[i].status_history
Pairs(h) == 1..(Len(h) - 1)
Gap(h) == [i \in Pairs(h) |-> h[i + 1][1] - h[i][1]]
DictTotal(d) == SumOver(DOMAIN d, d)
MRows == 1..Len(metrics.df.rows)
MRow(i) == metrics.df.rows[i]
\* The float a fraction stands for is 0.0.
IsZero(q) == q.num = 0 /\ q.den > 0

\* C1: the durations returned by _time_in_status add up to the span between
\* the first and the last transition of the history, whatever the toStatus
\* values are (a missing toStatus included).
C1_SumEqualsSpan ==
    Computed =>
        \A i \in Rows :
            Len(History(i)) >= 1 =>
                DictTotal(df.rows[i].status_durations)
                    = History(i)[Len(History(i))][1] - History(i)[1][1]

\* C1 as amended: the durations add up to the span between the first and the
\* last transition less the intervals that follow a transition without a
\* toStatus; they add up to the whole span when every transition but the last
\* has a toStatus.
C1_SumEqualsSpanOfKnownStatus ==
    Computed =>
        \A i \in Rows :
            LET h == History(i)
                unknown == {k \in Pairs(h) : h[k][3] = NoneStr}
            IN  Len(h) >= 1 =>
                    DictTotal(df.rows[i].status_durations)
                        = (h[Len(h)][1] - h[1][1]) - SumOver(unknown, Gap(h))

C1_Witness ==
    /\ pc = "durations"
    /\ \E i \in Rows :
          LET h == History(i)
          IN  /\ Len(h) = 3
              /\ h[1][3] = "In Progress" /\ h[2][3] = "In Progress"
              /\ h[1][1] < h[2][1] /\ h[2][1] < h[3][1]
              /\ DictTotal(df.rows[i].status_durations) = h[3][1] - h[1][1]

\* C2: _time_in_status maps each status name s to the sum of the gaps
\* t(i+1) - t(i) over the consecutive pairs whose earlier transition has
\* toStatus = s, has no other key, does not count the interval after the last
\* transition, and is empty for a history of length 0 or 1.
C2_TimeInStatusPerStatus ==
    Computed =>
        \A i \in Rows :
            LET h == History(i)
                d == df.rows[i].status_durations
            IN  /\ DOMAIN d = {h[k][3] : k \in Pairs(h)} \ {NoneStr}
                /\ \A s \in DOMAIN d :
                       d[s] = SumOver({k \in Pairs(h) : h[k][3] = s}, Gap(h))
                /\ Len(h) < 2 => d = EmptyDict

C2_Witness ==
    /\ pc = "durations"
    /\ \E i \in Rows :
          LET h == History(i)
          IN  /\ Len(h) = 3
              /\ h[1][3] = "Blocked" /\ h[2][3] = "Blocked" /\ h[3][3] = "Done"
              /\ h[1][1] < h[2][1] /\ h[2][1] < h[3][1]
              /\ df.rows[i].status_durations["Blocked"] = h[3][1] - h[1][1]

\* C3: _was_reopened is true exactly when some transition into a done status
\* is followed, later in the history, by a transition whose toStatus is not a
\* done status (a missing toStatus is not a done status).
C3_WasReopenedIff ==
    pc = "metrics" =>
        \A i \in MRows :
            LET h == MRow(i).status_history
            IN  metrics.reopened_flags[i]
                    <=> \E j \in 1..Len(h) : \E k \in (j + 1)..Len(h) :
                            h[j][3] \in done_names /\ h[k][3] \notin done_names

C3_Witness ==
    /\ pc = "metrics"
    /\ done_names = {"Done", "Closed"}
    /\ \E i \in MRows :
          LET h == MRow(i).status_history
          IN  /\ Len(h) = 3
              /\ h[1][3] = "Done" /\ h[2][3] = "In Progress" /\ h[3][3] = "Closed"
              /\ metrics.reopened_flags[i]

\* C4: cycle_time_days, lead_time_days and blocked_days are >= 0 whenever
\* they are defined.
C4_DaysNonNegative ==
    pc = "metrics" =>
        \A i \in MRows :
            /\ MRow(i).cycle_time_days.def => MRow(i).cycle_time_days.v >= 0
            /\ MRow(i).lead_time_days.def => MRow(i).lead_time_days.v >= 0
            /\ MRow(i).blocked_days.def => MRow(i).blocked_days.v >= 0

\* C5: done_time is the resolved timestamp whenever resolved is present;
\* without it, done_time is the timestamp of the last transition whose
\* toStatus is a done status, and is undefined when there is none.
C5_DoneTimePolicy ==
    pc = "metrics" =>
        \A i \in MRows :
            LET r == MRow(i)
                h == r.status_history
                D == {k \in 1..Len(h) : h[k][3] \in done_names}
            IN  IF r.resolved.def THEN r.done_time = r.resolved
                ELSE IF D = {} THEN ~r.done_time.def
                ELSE \E k \in D :
                        /\ \A o \in D : o <= k
                        /\ r.done_time = Some(h[k][1])

C5_Witness ==
    /\ pc = "metrics"
    /\ \E i \in MRows : \E j \in MRows :
          /\ Len(MRow(i).status_history) = 3
          /\ MRow(i).resolved = Some(Day(0))
          /\ MRow(i).done_time = Some(Day(0))
          /\ Len(MRow(j).status_history) = 3
          /\ ~MRow(j).resolved.def
          /\ MRow(j).done_time = Some(Day(2))

\* C6: when no transition of the batch enters a status of done_names (the
\* empty done_names included), no issue counts as completed: done_time is
\* undefined for every issue, the reopen rate is 0.0 and throughput and
\* velocity are empty, whatever the other fields of the issues are.
NoDoneTransition ==
    \A i \in MRows :
        \A k \in 1..Len(MRow(i).status_history) :
            MRow(i).status_history[k][3] \notin done_names

C7_EmptyBatchNoError ==
    (issues = <<>> /\ pc \notin {"fetched", "rows"}) =>
        /\ pc # "error"
        /\ pc = "metrics" =>
              /\ metrics.throughput = EmptyDict
              /\ metrics.velocity = EmptyDict
              /\ IsZero(metrics.reopen_rate_pct)
              /\ ~metrics.avg_cycle_time_days.def
              /\ ~metrics.avg_lead_time_days.def
              /\ ~metrics.cycle_time_std_days.def
              /\ ~metrics.blocked_avg_days.def

\* The status transitions a change-log entry carries, in the order of its
\* items; none when the entry is malformed.
WellFormed(e) == e.created.kind = "iso" /\ e.items.iterable
EntryTransitions(e) ==
    IF WellFormed(e)
    THEN LET st == SelectSeq(e.items.list, LAMBDA item : item.field = "status")
         IN  [j \in 1..Len(st) |-> <<e.created.t, st[j].fromString, st[j].toString>>]
    ELSE <<>>

RECURSIVE Delivered(_)
Delivered(hs) ==
    IF hs = <<>> THEN <<>> ELSE EntryTransitions(Head(hs)) \o Delivered(Tail(hs))

Occurrences(seq, x) == Cardinality({k \in 1..Len(seq) : seq[k] = x})

\* C8: a single malformed entry of a change-log removes only its own
\* transitions: every status transition of the well-formed entries, before
\* and after it, is in the history returned by _extract_status_history.
C8_OnlyMalformedEntryDropped ==
    (pc # "fetched" /\ Len(df.rows) = 1) =>
        LET hs == issues[1].changelog.histories
            want == Delivered(hs)
        IN  Cardinality({k \in 1..Len(hs) : ~WellFormed(hs[k])}) = 1 =>
                \A k \in 1..Len(want) :
                    Occurrences(History(1), want[k]) = Occurrences(want, want[k])

RECURSIVE IsSubseq(_, _)
IsSubseq(a, b) ==
    IF a = <<>> THEN TRUE
    ELSE IF b = <<>> THEN FALSE
    ELSE IF Head(a) = Head(b) THEN IsSubseq(Tail(a), Tail(b))
    ELSE IsSubseq(a, Tail(b))

At(seq, t) == SelectSeq(seq, LAMBDA x : x[1] = t)

\* C9: whatever the order in which the change-log entries are delivered, the
\* history holds only transitions of items whose field is "status", is
\* non-decreasing in timestamp, and keeps transitions of equal timestamp in
\* their order of delivery.
C9_SortedStableStatusOnly ==
    (pc # "fetched" /\ Len(df.rows) = 1) =>
        LET h == History(1)
            want == Delivered(issues[1].changelog.histories)
        IN  /\ \A k \in 1..Len(h) : Occurrences(want, h[k]) >= Occurrences(h, h[k])
            /\ \A k \in Pairs(h) : h[k][1] <= h[k + 1][1]
            /\ \A k \in 1..Len(h) : IsSubseq(At(h, h[k][1]), At(want, h[k][1]))

C9_Witness ==
    /\ pc = "rows"
    /\ Len(df.rows) = 1
    /\ LET hs == issues[1].changelog.histories
           h == History(1)
       IN  /\ Len(hs) = 3
           /\ \A k \in 1..3 : WellFormed(hs[k])
           /\ hs[1].created.t > hs[2].created.t
           /\ hs[2].created.t = hs[3].created.t
           /\ Len(hs[2].items.list) = 3
           /\ hs[3].items.list = <<StatusItem("To Do", "In Progress")>>
           /\ Len(h) >= 4
           /\ h[1][3] = "Done" /\ h[2][3] = "In Progress" /\ h[3][2] = "To Do"

\* C10: reopen_rate_pct is 100 * (completed and reopened issues) / (completed
\* issues), counted over all issues with or without a sprint_id, and is
\* exactly 0.0 when no issue is completed.
C10_ReopenRate ==
    pc = "metrics" =>
        LET completed == {i \in MRows : MRow(i).done_time.def}
            reopened == {i \in completed : metrics.reopened_flags[i]}
            rate == metrics.reopen_rate_pct
        IN  /\ rate.den > 0
            /\ rate.num * Cardinality(completed)
                   = 100 * Cardinality(reopened) * rate.den
            /\ completed = {} => IsZero(rate)

C10_Witness ==
    /\ pc = "metrics"
    /\ Len(metrics.df.rows) = 2
    /\ \A i \in MRows : MRow(i).done_time.def
    /\ \E i \in MRows : ~MRow(i).sprint_id.def /\ metrics.reopened_flags[i]
    /\ \E i \in MRows : MRow(i).sprint_id.def /\ ~metrics.reopened_flags[i]
    /\ metrics.reopen_rate_pct = [num |-> 100, den |-> 2]

\* C11: throughput and velocity have the same keys, the sprint ids carried by
\* at least one completed issue; throughput[s] counts the completed issues of
\* sprint s and velocity[s] adds their story points, a missing estimate
\* counting 0, so that a sprint whose completed issues all lack an estimate has
\* velocity 0; other issues contribute to neither.
C11_ThroughputVelocity ==
    pc = "metrics" =>
        LET group(sp) == {i \in MRows : /\ MRow(i).done_time.def
                                       /\ MRow(i).sprint_id = Some(sp)}
            sprints == {MRow(i).sprint_id.v :
                           i \in {j \in MRows : /\ MRow(j).done_time.def
                                               /\ MRow(j).sprint_id.def}}
            points(i) == IF MRow(i).story_points.def THEN MRow(i).story_points.v ELSE 0
        IN  /\ DOMAIN metrics.throughput = sprints
            /\ DOMAIN metrics.velocity = sprints
            /\ \A sp \in sprints :
                  /\ metrics.throughput[sp] = Cardinality(group(sp))
                  /\ metrics.velocity[sp]
                        = SumOver(group(sp), [i \in group(sp) |-> points(i)])

C11_Witness ==
    /\ pc = "metrics"
    /\ Len(metrics.df.rows) = 2
    /\ \E i \in MRows : \E j \in MRows :
          /\ MRow(i).done_time.def /\ MRow(i).sprint_id = Some(1)
          /\ ~MRow(i).story_points.def
          /\ MRow(j).done_time.def /\ MRow(j).sprint_id = Some(2)
          /\ MRow(j).story_points.def
    /\ DOMAIN metrics.velocity = {1, 2}
    /\ metrics.velocity[1] = 0
    /\ metrics.velocity[2] > 0

\* C12: cycle_time_std_days is undefined exactly when fewer than two issues
\* have a cycle_time_days, and is a defined nonnegative value (the sample
\* standard deviation, kept as its square) for two or more;
\* avg_cycle_time_days is undefined exactly when no issue has one.
C12_StdAndMeanDefined ==
    pc = "metrics" =>
        LET idx == {i \in MRows : MRow(i).cycle_time_days.def}
            n == Cardinality(idx)
            total == SumOver(idx, [i \in idx |-> MRow(i).cycle_time_days.v])
            dev == [i \in idx |-> (n * MRow(i).cycle_time_days.v - total)
                                    * (n * MRow(i).cycle_time_days.v - total)]
            std == metrics.cycle_time_std_days
        IN  /\ std.def <=> n >= 2
            /\ std.def =>
                  /\ std.v.den > 0
                  /\ std.v.num >= 0
                  /\ std.v.num * (n * n * (n - 1)) = SumOver(idx, dev) * std.v.den
            /\ metrics.avg_cycle_time_days.def <=> n >= 1

C12_Witness ==
    /\ pc = "metrics"
    /\ Cardinality({i \in MRows : MRow(i).cycle_time_days.def}) = 2
    /\ \E i \in MRows : \E j \in MRows :
          /\ MRow(i).cycle_time_days.def /\ MRow(j).cycle_time_days.def
          /\ MRow(i).cycle_time_days.v < MRow(j).cycle_time_days.v
    /\ metrics.cycle_time_std_days.def
    /\ metrics.cycle_time_std_days.v.num > 0

\* C13: blocked_days is the total, in days, of the buckets whose key contains
\* "blocked", and is undefined if and only if the duration mapping has no such
\* bucket: it is defined whenever one exists, even with a zero duration.
C13_BlockedDaysIffBucket ==
    Computed =>
        \A i \in Rows :
            LET d == df.rows[i].status_durations
                B == {s \in DOMAIN d : ContainsBlocked(s)}
            IN  /\ df.rows[i].blocked_days.def <=> B # {}
                /\ df.rows[i].blocked_days.def =>
                       df.rows[i].blocked_days.v = TotalDays(SumOver(B, d))

\* C18: every issue flagged reopened is also completed (its done_time is
\* defined, from the resolution date or from any transition into a done
\* status, even when its latest transition leaves done), so the count of
\* reopened and completed issues is the count of reopened issues and the
\* reopen rate lies between 0.0 and 100.0.
C18_ReopenedIsCompleted ==
    pc = "metrics" =>
        LET rate == metrics.reopen_rate_pct
        IN  /\ \A i \in MRows : metrics.reopened_flags[i] => MRow(i).done_time.def
            /\ rate.num * Cardinality({i \in MRows : MRow(i).done_time.def})
                   = 100 * Cardinality({i \in MRows : metrics.reopened_flags[i]})
                         * rate.den
            /\ rate.den > 0
            /\ 0 <= rate.num
            /\ rate.num <= 100 * rate.den

C18_Witness ==
    /\ pc = "metrics"
    /\ \E i \in MRows :
          LET h == MRow(i).status_history
          IN  /\ ~MRow(i).resolved.def
              /\ Len(h) = 2
              /\ h[1][3] \in done_names /\ h[2][3] \notin done_names
              /\ metrics.reopened_flags[i]
              /\ MRow(i).done_time = Some(h[1][1])
    /\ IsZero(metrics.reopen_rate_pct) = FALSE

\* ------------------------------------------------ the summary of the metrics

\* summary_md = generate_summary_markdown(metrics)
GenerateSummary ==
    /\ pc = "metrics"
    /\ summary' = GenerateSummaryMarkdown(metrics)
    /\ pc' = "summary"
    /\ UNCHANGED <<issues, in_progress_names, done_names, df, metrics, runs>>
    /\ UNCHANGED feedback

NextReport == GenerateSummary

\* Aggregates a MetricsResult can hold: halves of a day around each threshold,
\* the variance whose root is the stdev, and reopen rates as num / den percent.
Half(n) == Some([num |-> n, den |-> 2])
ReportCycleTimes == {None, Half(0), Half(2), Half(6)}
ReportLeadTimes == {None, Half(0), Half(6), Half(7), Half(10)}
ReportVariances == {None, Half(0), Half(18), Half(32)}
ReportBlocked == {None, Half(0), Half(1), Half(2)}
ReportReopenRates == {[num |-> 0, den |-> 1], [num |-> 100, den |-> 10],
                      [num |-> 100, den |-> 2]}
ReportSeries == {EmptyDict, DictSet(EmptyDict, 1, 2)}

InitReport ==
    /\ issues = <<>>
    /\ in_progress_names = {"In Progress"}
    /\ done_names = {"Done"}
    /\ pc = "metrics"
    /\ df = NoTable
    /\ runs = 1
    /\ summary = NoSummary
    /\ cache = EmptyCache
    /\ calls = NoCalls
    /\ \E c \in ReportCycleTimes, l \in ReportLeadTimes, v \in ReportVariances,
          b \in ReportBlocked, r \in ReportReopenRates, t \in ReportSeries :
          \* a stdev needs two cycle times, a mean one
          /\ v.def => c.def
          /\ metrics = [df |-> NoTable, reopened_flags |-> <<>>,
                     throughput |-> t, velocity |-> t,
                     reopen_rate_pct |-> r,
                     avg_cycle_time_days |-> c, avg_lead_time_days |-> l,
                     cycle_time_std_days |-> v, blocked_avg_days |-> b]

SpecReport == InitReport /\ [][NextReport]_vars

Summarised == pc = "summary"
Fired(rule) == \E k \in 1..Len(summary.recs) : summary.recs[k] = rule

\* C14: each of the four threshold rules fires exactly when its condition holds
\* on defined aggregates: backlog-grooming when lead mean - cycle mean > 2.0
\* (a cycle mean of 0.0 included), blockers when the blocked mean > 0.5,
\* reopen when the reopen rate > 10.0, variance when the stdev > 3.0; a rule
\* with an undefined operand does not fire.
C14_RulesFireIffCondition ==
    Summarised =>
        /\ Fired("backlog") <=>
              /\ metrics.avg_cycle_time_days.def
              /\ metrics.avg_lead_time_days.def
              /\ DiffGreater(metrics.avg_lead_time_days.v,
                             metrics.avg_cycle_time_days.v, 2)
        /\ Fired("blockers") <=>
              /\ metrics.blocked_avg_days.def
              /\ Greater(metrics.blocked_avg_days.v, 1, 2)
        /\ Fired("reopen") <=> Greater(metrics.reopen_rate_pct, 10, 1)
        /\ Fired("variance") <=>
              /\ metrics.cycle_time_std_days.def
              /\ RootGreater(metrics.cycle_time_std_days.v, 3)

RuleOrder == <<"backlog", "blockers", "reopen", "variance">>
RuleIndex(rule) == CHOOSE k \in 1..Len(RuleOrder) : RuleOrder[k] = rule
IsRule(line) == \E k \in 1..Len(RuleOrder) : RuleOrder[k] = line
Headings == {k \in 1..Len(summary.lines) : summary.lines[k] = "Recommendations"}
Emitted == SelectSeq(summary.lines, IsRule)

\* C15: the recommendations emitted are at most 3 and are the first three of
\* the rules that fired, in the order backlog-grooming, blockers, reopen/QA,
\* variance; when all four fired the variance one is omitted; the
\* Recommendations heading is there only when a rule fired, and the
\* recommendations follow it.
C15_FirstThreeInFixedOrder ==
    Summarised =>
        LET recs == summary.recs
            lines == summary.lines
        IN  /\ \A j, k \in 1..Len(recs) :
                  j < k => RuleIndex(recs[j]) < RuleIndex(recs[k])
            /\ Len(Emitted) <= 3
            /\ \A k \in 1..Len(Emitted) : Emitted[k] = recs[k]
            /\ Len(Emitted) = (IF Len(recs) > 3 THEN 3 ELSE Len(recs))
            /\ Len(recs) = 4 => ~ \E k \in 1..Len(Emitted) : Emitted[k] = "variance"
            /\ (Headings # {}) <=> (recs # <<>>)
            /\ \A k \in Headings :
                  SubSeq(lines, k + 1, Len(lines)) = Emitted

\* All four rules fire and three recommendations are shown.
C15_Witness ==
    /\ Summarised
    /\ Len(summary.recs) = 4
    /\ Len(Emitted) = 3
    /\ Headings # {}

\* ------------------------------------------------------- the AI feedback

\* A session calls generate_ai_feedback; the inputs of the call fix cache_key.
BeginFeedback(p, k) ==
    /\ pc = "summary"
    /\ calls[p].pc = "idle"
    /\ calls[p].n < MaxCalls
    /\ calls' = [calls EXCEPT ![p] =
                    [pc |-> "get", key |-> k, text |-> "", n |-> calls[p].n + 1]]
    /\ UNCHANGED <<pipeline, summary, cache>>

\* cached = _CACHE.get(cache_key); if cached: return cached
CacheGet(p) ==
    /\ calls[p].pc = "get"
    /\ LET cached == cache[calls[p].key]
       IN  IF cached.def /\ cached.v # ""
           THEN calls' = [calls EXCEPT ![p].pc = "idle", ![p].text = cached.v]
           ELSE calls' = [calls EXCEPT ![p].pc = "create"]
    /\ UNCHANGED <<pipeline, summary, cache>>

\* client.chat.completions.create(...) at temperature 0.3: any text, or none.
CreateCompletion(p) ==
    /\ calls[p].pc = "create"
    /\ \E text \in Texts :
          calls' = [calls EXCEPT ![p].pc = "set", ![p].text = text]
    /\ UNCHANGED <<pipeline, summary, cache>>

\* _CACHE.set(cache_key, text, expire=...); return text
CacheSet(p) ==
    /\ calls[p].pc = "set"
    /\ cache' = [cache EXCEPT ![calls[p].key] = Entry(calls[p].text)]
    /\ calls' = [calls EXCEPT ![p].pc = "idle"]
    /\ UNCHANGED <<pipeline, summary>>

\* The entry of a key outlives its TTL and is dropped.
Expire(k) ==
    /\ cache[k].def
    /\ cache' = [cache EXCEPT ![k] = NoEntry]
    /\ UNCHANGED <<pipeline, summary, calls>>

NextCache ==
    \/ \E p \in Sessions, k \in CacheKeys : BeginFeedback(p, k)
    \/ \E p \in Sessions : CacheGet(p)
    \/ \E p \in Sessions : CreateCompletion(p)
    \/ \E p \in Sessions : CacheSet(p)
    \/ \E k \in CacheKeys : Expire(k)

InitCache ==
    /\ issues = <<>>
    /\ in_progress_names = {"In Progress"}
    /\ done_names = {"Done"}
    /\ pc = "summary"
    /\ df = NoTable
    /\ runs = 1
    /\ metrics = [df |-> NoTable, reopened_flags |-> <<>>,
                  throughput |-> EmptyDict, velocity |-> EmptyDict,
                  reopen_rate_pct |-> [num |-> 0, den |-> 1],
                  avg_cycle_time_days |-> None, avg_lead_time_days |-> None,
                  cycle_time_std_days |-> None, blocked_avg_days |-> None]
    /\ summary = GenerateSummaryMarkdown(metrics)
    /\ cache = EmptyCache
    /\ calls = NoCalls

SpecCache == InitCache /\ [][NextCache]_vars

\* C16: the cache is write-once per key: in every step, an entry that is
\* stored and still live afterwards is unchanged (also when its text is empty,
\* also when two overlapping calls both missed), and a call that looks up a
\* key with a stored entry returns that entry instead of going on to the model.
C16_WriteOnceReadMany ==
    [][/\ \A k \in CacheKeys :
              (cache[k].def /\ cache'[k].def) => cache'[k] = cache[k]
       /\ \A p \in Sessions :
              (/\ calls[p].pc = "get"
               /\ calls'[p].pc # "get"
               /\ cache[calls[p].key].def)
              => (calls'[p].pc = "idle" /\ calls'[p].text = cache[calls[p].key].v)
      ]_vars

\* ------------------------------------------------------- recomputation

\* A rerun of the script with the same cached df and the same name sets calls
\* compute_all_metrics again.
RecomputeAllMetrics ==
    /\ pc = "metrics"
    /\ runs < MaxRuns
    /\ metrics' = ComputeAllMetricsResult(df, in_progress_names, done_names)
    /\ runs' = runs + 1
    /\ UNCHANGED <<issues, in_progress_names, done_names, pc, df>>
    /\ UNCHANGED <<summary, feedback>>

NextRerun == Next \/ RecomputeAllMetrics

SpecRerun == Init /\ [][NextRerun]_vars

====
